---------------------------- MODULE Spec2Model ----------------------------
(* A model of pvlens-db/python/srlc/download_srlc_data.py: the SRLC        *)
(* catalog loader, the sequential downloader and the file-count check.     *)
(*                                                                         *)
(* Text is modelled as a sequence of one-character strings, a byte string  *)
(* as a sequence of byte tokens, a Python dict as the sequence of its      *)
(* <<key, value>> pairs in insertion order, the output directory as a      *)
(* function from the names it lists to the files' contents.                *)
EXTENDS Integers, Sequences, FiniteSets, TLC

VARIABLES
    pc,                 \* position of the process in the script
    DOWNLOAD_DATA,      \* the run-mode flag of line 106
    labels,             \* the rows read_csv returns (the catalog)
    index,              \* number of rows the load loop has consumed
    drug_links,         \* dict drug_id -> Link
    drug_appid_links,   \* dict drug_id -> Application Number
    counter,            \* the script's counter variable
    out,                \* the lines printed so far by this process
    fs,                 \* the output directory: name -> content
    all_files,          \* the result of os.listdir(DATA_PATH)
    it,                 \* number of keys the download loop has taken
    r,                  \* the response being streamed, or NoResponse
    f,                  \* the name of the file open for writing, or NoFile
    gets,               \* the GET requests this process has sent
    opens,              \* the names this process has opened for writing
    served,             \* dict drug_id -> the response served to this process
    outstanding,        \* GETs whose response is not yet fully streamed
    nsleep,             \* time.sleep calls of this process
    nclosed,            \* downloads of this process whose file was closed normally
    failedAt,           \* key position at which a transport error aborted, or 0
    prevNames,          \* names listed after the previous complete download run
    link,               \* input of the extraction rule (SpecExtract)
    extracted           \* its outcome (SpecExtract)

vars == <<pc, DOWNLOAD_DATA, labels, index, drug_links, drug_appid_links,
          counter, out, fs, all_files, it, r, f, gets, opens, served,
          outstanding, nsleep, nclosed, failedAt, prevNames, link, extracted>>

-----------------------------------------------------------------------------
(* Bounds of the model.                                                    *)
MaxRows == 3
MaxLinkLen == 5

-----------------------------------------------------------------------------
(* Text.                                                                   *)

Digits == {"0", "1", "2", "3", "4", "5", "6", "7", "8", "9"}

DigitVal(c) ==
    CASE c = "0" -> 0 [] c = "1" -> 1 [] c = "2" -> 2 [] c = "3" -> 3
      [] c = "4" -> 4 [] c = "5" -> 5 [] c = "6" -> 6 [] c = "7" -> 7
      [] c = "8" -> 8 [] c = "9" -> 9

DigitChar(d) ==
    CASE d = 0 -> "0" [] d = 1 -> "1" [] d = 2 -> "2" [] d = 3 -> "3"
      [] d = 4 -> "4" [] d = 5 -> "5" [] d = 6 -> "6" [] d = 7 -> "7"
      [] d = 8 -> "8" [] d = 9 -> "9"

Whitespace == {" "}

\* The one element of a one-element set.  In {e(v) : v \in {x}} the value x
\* is computed once, however often e uses v.
The(S) == CHOOSE x \in S : TRUE

\* str.split(sep) for a one-character separator: the list of the segments
\* between the separators, always at least one segment.
RECURSIVE Split(_, _)
Split(s, sep) ==
    IF \A i \in 1..Len(s) : s[i] # sep
    THEN <<s>>
    ELSE The({ <<SubSeq(s, 1, i - 1)>>
                 \o The({Split(rest, sep) : rest \in {SubSeq(s, i + 1, Len(s))}})
               : i \in {k \in 1..Len(s) :
                           s[k] = sep /\ \A j \in 1..(k - 1) : s[j] # sep} })

\* str.strip(): leading and trailing whitespace removed.
Strip(s) ==
    IF \A i \in 1..Len(s) : s[i] \in Whitespace THEN <<>>
    ELSE The({ SubSeq(s, lo, hi)
               : lo \in {k \in 1..Len(s) :
                            /\ s[k] \notin Whitespace
                            /\ \A j \in 1..(k - 1) : s[j] \in Whitespace},
                 hi \in {k \in 1..Len(s) :
                            /\ s[k] \notin Whitespace
                            /\ \A j \in (k + 1)..Len(s) : s[j] \in Whitespace} })

\* The value of a digit string with single underscores between digits: the
\* digits, most significant first, the underscores passed over.
RECURSIVE DecValue(_, _)
DecValue(s, n) ==
    IF n = 0 THEN 0
    ELSE IF s[n] = "_" THEN DecValue(s, n - 1)
    ELSE 10 * DecValue(s, n - 1) + DigitVal(s[n])

\* The digit part int() accepts: digits, with single underscores only
\* between two digits.
IsDigitPart(s) ==
    /\ s # <<>>
    /\ \A i \in 1..Len(s) : s[i] \in Digits \cup {"_"}
    /\ s[1] # "_"
    /\ s[Len(s)] # "_"
    /\ \A i \in 1..(Len(s) - 1) : ~(s[i] = "_" /\ s[i + 1] = "_")

\* int(s) of a str: surrounding whitespace is stripped, one sign is allowed,
\* then the digit part; anything else raises ValueError (ok = FALSE).
PyInt(s) ==
    The({ LET neg == t # <<>> /\ t[1] = "-"
              body == IF t # <<>> /\ t[1] \in {"+", "-"} THEN Tail(t) ELSE t
          IN  IF IsDigitPart(body)
              THEN [ok |-> TRUE,
                    val |-> IF neg THEN 0 - DecValue(body, Len(body))
                            ELSE DecValue(body, Len(body))]
              ELSE [ok |-> FALSE, val |-> 0]
          : t \in {Strip(s)} })

\* str(n) of an int: its decimal digits, "-" first when negative.
RECURSIVE NatStr(_)
NatStr(n) ==
    IF n < 10 THEN <<DigitChar(n)>>
    ELSE NatStr(n \div 10) \o <<DigitChar(n % 10)>>

Str(n) == IF n < 0 THEN <<"-">> \o NatStr(0 - n) ELSE NatStr(n)

ExtractFirstSegment(prd_url) ==
    The({ IF Len(segs) < 1 THEN [ok |-> FALSE, val |-> 0]
          ELSE The({ IF Len(kv) < 2 THEN [ok |-> FALSE, val |-> 0]
                     ELSE PyInt(kv[2])
                     : kv \in {Split(segs[1], "=")} })
          : segs \in {Split(prd_url, "&")} })

\* Line 91: int(prd_url.split("&")[1].split("=")[1]).  An index out of
\* range (IndexError) and a rejected int() (ValueError) both give ok = FALSE.
ExtractDrugId(prd_url) ==
    The({ IF Len(segs) < 2 THEN [ok |-> FALSE, val |-> 0]
          ELSE The({ IF Len(kv) < 2 THEN [ok |-> FALSE, val |-> 0]
                     ELSE PyInt(kv[2])
                     : kv \in {Split(segs[2], "=")} })
          : segs \in {Split(prd_url, "&")} })

-----------------------------------------------------------------------------
(* Python dicts, in insertion order.                                       *)

DictKeys(d) == [i \in 1..Len(d) |-> d[i][1]]

DictKeySet(d) == {d[i][1] : i \in 1..Len(d)}

DictHas(d, k) == k \in DictKeySet(d)

DictGet(d, k) == d[CHOOSE i \in 1..Len(d) : d[i][1] = k][2]

DictSetKeepFirst(d, k, v) ==
    IF DictHas(d, k) THEN d ELSE Append(d, <<k, v>>)

\* d[k] = v: a present key keeps its place and takes the new value, a new
\* key is added at the end.
DictSet(d, k, v) ==
    IF DictHas(d, k)
    THEN [i \in 1..Len(d) |-> IF d[i][1] = k THEN <<k, v>> ELSE d[i]]
    ELSE Append(d, <<k, v>>)

-----------------------------------------------------------------------------
(* Constants of the script.                                                *)

\* Line 50.
userAgent ==
    "User-Agent" :> "Mozilla/5.0 (Windows NT 10.0; Win64; x64) AppleWebKit/537.36 (KHTML, like Gecko) Chrome/101.0.4951.54 Safari/537.36"

\* The headers requests.get sends when the call passes none (line 66).
DefaultHeaders == "User-Agent" :> "python-requests"

\* Line 124: a milestone line every 100 downloads.
MilestoneEvery == 100

FileNameFixed(id) == <<"o", "u", "t">> \o <<".", "h", "t", "m", "l">>

\* Line 118: str(drug_id) + ".html".
FileName(id) == Str(id) \o <<".", "h", "t", "m", "l">>

FinalLine == <<"SRLC downloads complete!">>

-----------------------------------------------------------------------------
(* The inputs the model draws from.                                        *)

Row(app, lnk) == [app |-> app, link |-> lnk]

\* Rows of label_changes_*.csv: two rows with id 42, one with id 7, and one
\* Link without "&" whose id is not a number.
SampleRows ==
    { Row("A1", <<"y", "&", "i", "d", "=", "4", "2", "&", "z", "=", "1">>),
      Row("A2", <<"y", "&", "i", "d", "=", "4", "2", "&", "z", "=", "2">>),
      Row("A3", <<"y", "&", "i", "d", "=", "7", "&", "z", "=", "9">>),
      Row("A4", <<"y", "?", "i", "d", "=", "x">>) }

Catalogs == UNION {[1..n -> SampleRows] : n \in 0..MaxRows}

\* Responses of the server: a status and the chunks iter_content yields.
Responses ==
    { [status |-> 200, chunks |-> << <<"B", "4">>, <<>>, <<"2">> >>],
      [status |-> 404, chunks |-> << <<>>, <<"E">> >>],
      [status |-> 200, chunks |-> << >>] }

EmptyDir == [n \in {} |-> <<>>]

\* What the output directory may hold before the first run: nothing, or a
\* file of another name.
InitDirs ==
    { EmptyDir,
      (<<"j">> :> <<"x">>) }

\* The characters of the links SpecExtract enumerates.
LinkChars == {"&", "=", "0", "7", "-", "_", " ", "x"}

BoundedLinks == UNION {[1..n -> LinkChars] : n \in 0..MaxLinkLen}

NoResponse == [status |-> 0, chunks |-> <<>>, pos |-> 0]
NoFile == <<>>
NoNames == {<<"none">>}
NotExtracted == [ok |-> FALSE, val |-> -1]

Terminal == {"done", "aborted", "interrupted"}

\* All the bytes of a response's non-empty chunks, in order.
RECURSIVE Concat(_)
Concat(chunks) ==
    IF chunks = <<>> THEN <<>> ELSE Head(chunks) \o Concat(Tail(chunks))

Prefixes(s) == {SubSeq(s, 1, k) : k \in 0..Len(s)}

-----------------------------------------------------------------------------
(* The state a fresh process starts in.                                    *)

FreshProcess ==
    /\ pc = "read_csv"
    /\ index = 0
    /\ drug_links = <<>>
    /\ drug_appid_links = <<>>
    /\ counter = 0
    /\ out = <<>>
    /\ all_files = {}
    /\ it = 0
    /\ r = NoResponse
    /\ f = NoFile
    /\ gets = <<>>
    /\ opens = <<>>
    /\ served = <<>>
    /\ outstanding = 0
    /\ nsleep = 0
    /\ nclosed = 0
    /\ failedAt = 0

Init ==
    /\ FreshProcess
    /\ DOWNLOAD_DATA \in BOOLEAN
    /\ labels \in Catalogs
    /\ fs \in InitDirs
    /\ prevNames = NoNames
    /\ link = <<>>
    /\ extracted = NotExtracted

procVars == <<index, drug_links, drug_appid_links, counter, out, all_files,
              it, r, f, gets, opens, served, outstanding, nsleep, nclosed,
              failedAt>>

envVars == <<DOWNLOAD_DATA, labels, prevNames, link, extracted>>

\* An uncaught exception: the traceback goes to stderr, nothing more is
\* printed, the process ends.
Raise ==
    /\ pc' = "aborted"

-----------------------------------------------------------------------------
(* The catalog loader, lines 80-100.                                       *)

\* Line 80: read_csv returns the rows of the catalog.
ReadCsv ==
    /\ pc = "read_csv"
    /\ pc' = "rows"
    /\ UNCHANGED <<procVars, envVars, fs>>

\* Line 80: the catalog is missing or cannot be parsed.
ReadCsvError ==
    /\ pc = "read_csv"
    /\ Raise
    /\ UNCHANGED <<procVars, envVars, fs>>

\* Lines 85-96, one row.
LoadRow ==
    /\ pc = "rows"
    /\ index < Len(labels)
    /\ LET row == labels[index + 1]
           app_id == row.app
           prd_url == row.link
       IN  \E e \in {ExtractDrugId(prd_url)} :
              IF e.ok
              THEN /\ drug_links' = DictSet(drug_links, e.val, prd_url)
                   /\ drug_appid_links' = DictSet(drug_appid_links, e.val, app_id)
                   /\ counter' = counter + 1
                   /\ index' = index + 1
                   /\ pc' = "rows"
              ELSE /\ Raise
                   /\ UNCHANGED <<drug_links, drug_appid_links, counter, index>>
    /\ UNCHANGED <<out, all_files, it, r, f, gets, opens, served, outstanding,
                   nsleep, nclosed, failedAt, envVars, fs>>

\* Lines 98-100, after the last row.
PrintSummary ==
    /\ pc = "rows"
    /\ index = Len(labels)
    /\ out' = out \o << <<"Total links: ", Str(counter)>>,
                        <<"Unique entries: ", Str(Len(drug_links))>>,
                        <<"Unique entries: ", Str(Len(drug_appid_links))>> >>
    /\ pc' = IF DOWNLOAD_DATA = TRUE THEN "listdir" ELSE "check"
    /\ UNCHANGED <<index, drug_links, drug_appid_links, counter, all_files, it,
                   r, f, gets, opens, served, outstanding, nsleep, nclosed,
                   failedAt, envVars, fs>>

-----------------------------------------------------------------------------
(* The downloader, lines 110-125 and download_file, lines 64-72.           *)

\* Lines 111-112.
ListDir ==
    /\ pc = "listdir"
    /\ all_files' = DOMAIN fs
    /\ counter' = 0
    /\ pc' = "loop"
    /\ UNCHANGED <<index, drug_links, drug_appid_links, out, it, r, f, gets,
                   opens, served, outstanding, nsleep, nclosed, failedAt,
                   envVars, fs>>

\* Lines 111 and 129: os.listdir raises (DATA_PATH is missing or unreadable).
ListDirError ==
    /\ pc \in {"listdir", "check"}
    /\ Raise
    /\ UNCHANGED <<procVars, envVars, fs>>

\* Line 113: the for loop takes the next key, or ends.
NextKey ==
    /\ pc = "loop"
    /\ pc' = IF it < Len(drug_links) THEN "get" ELSE "final"
    /\ UNCHANGED <<procVars, envVars, fs>>

drug_id == DictKeys(drug_links)[it + 1]

RequestHeadersCustom == userAgent

\* Line 66: requests.get(url, stream=True) passes no headers.
RequestHeaders == DefaultHeaders

\* Lines 115-119 and 66: the GET is sent and the response headers arrive.
Get ==
    /\ pc = "get"
    /\ \E resp \in Responses :
          /\ r' = [status |-> resp.status, chunks |-> resp.chunks, pos |-> 0]
          /\ served' = DictSet(served, drug_id, resp)
    /\ gets' = Append(gets, [drug_id |-> drug_id,
                             url |-> DictGet(drug_links, drug_id),
                             headers |-> RequestHeaders])
    /\ outstanding' = outstanding + 1
    /\ pc' = "open"
    /\ UNCHANGED <<index, drug_links, drug_appid_links, counter, out,
                   all_files, it, f, opens, nsleep, nclosed, failedAt,
                   envVars, fs>>

GetErrorRetry ==
    /\ pc = "get"
    /\ Len(gets) < 4
    /\ gets' = Append(gets, [drug_id |-> drug_id,
                             url |-> DictGet(drug_links, drug_id),
                             headers |-> RequestHeaders])
    /\ UNCHANGED <<pc, index, drug_links, drug_appid_links, counter, out,
                   all_files, it, r, f, opens, served, outstanding, nsleep,
                   nclosed, failedAt, envVars, fs>>

\* Line 66: a transport error (connection, timeout, DNS) in requests.get.
GetError ==
    /\ pc = "get"
    /\ gets' = Append(gets, [drug_id |-> drug_id,
                             url |-> DictGet(drug_links, drug_id),
                             headers |-> RequestHeaders])
    /\ failedAt' = it + 1
    /\ Raise
    /\ UNCHANGED <<index, drug_links, drug_appid_links, counter, out,
                   all_files, it, r, f, opens, served, outstanding, nsleep,
                   nclosed, envVars, fs>>

OpenKeep(dir, name) ==
    IF name \in DOMAIN dir THEN dir ELSE (name :> <<>>) @@ dir

\* open(name, 'wb'): the file is created, or truncated when it exists.
OpenWb(dir, name) == (name :> <<>>) @@ dir

\* Line 67.
Open ==
    /\ pc = "open"
    /\ fs' = OpenWb(fs, FileName(drug_id))
    /\ f' = FileName(drug_id)
    /\ opens' = Append(opens, FileName(drug_id))
    /\ pc' = "stream"
    /\ UNCHANGED <<index, drug_links, drug_appid_links, counter, out,
                   all_files, it, r, gets, served, outstanding, nsleep,
                   nclosed, failedAt, envVars>>

\* Line 67: open raises (permissions, missing directory).
OpenError ==
    /\ pc = "open"
    /\ Raise
    /\ UNCHANGED <<procVars, envVars, fs>>

WriteLastChunk(content, chunk) == IF chunk # <<>> THEN chunk ELSE content

\* Lines 69-70: an empty chunk is skipped, any other is appended.
WriteChunk(content, chunk) ==
    IF chunk # <<>> THEN content \o chunk ELSE content

\* Lines 68-70, one chunk of iter_content.
Chunk ==
    /\ pc = "stream"
    /\ r.pos < Len(r.chunks)
    /\ fs' = [fs EXCEPT ![f] = WriteChunk(fs[f], r.chunks[r.pos + 1])]
    /\ r' = [r EXCEPT !.pos = r.pos + 1]
    /\ UNCHANGED <<pc, index, drug_links, drug_appid_links, counter, out,
                   all_files, it, f, gets, opens, served, outstanding, nsleep,
                   nclosed, failedAt, envVars>>

\* Line 68: the connection breaks while the body is streamed; the with
\* block closes the file with what was written.
ChunkError ==
    /\ pc = "stream"
    /\ r.pos < Len(r.chunks)
    /\ f' = NoFile
    /\ failedAt' = it + 1
    /\ Raise
    /\ UNCHANGED <<index, drug_links, drug_appid_links, counter, out,
                   all_files, it, r, gets, opens, served, outstanding, nsleep,
                   nclosed, envVars, fs>>

\* Line 70: f.write raises (disk full); the with block closes the file.
WriteError ==
    /\ pc = "stream"
    /\ r.pos < Len(r.chunks)
    /\ r.chunks[r.pos + 1] # <<>>
    /\ f' = NoFile
    /\ Raise
    /\ UNCHANGED <<index, drug_links, drug_appid_links, counter, out,
                   all_files, it, r, gets, opens, served, outstanding, nsleep,
                   nclosed, failedAt, envVars, fs>>

\* Lines 67-72: the stream is exhausted, the file is closed, the call returns.
EndStream ==
    /\ pc = "stream"
    /\ r.pos = Len(r.chunks)
    /\ f' = NoFile
    /\ r' = NoResponse
    /\ outstanding' = outstanding - 1
    /\ nclosed' = nclosed + 1
    /\ pc' = "saved"
    /\ UNCHANGED <<index, drug_links, drug_appid_links, counter, out,
                   all_files, it, gets, opens, served, nsleep, failedAt,
                   envVars, fs>>

AfterSavingNoSleep == "count"

\* Lines 120-122: the progress line is followed by the sleep.
AfterSaving == "sleep"

\* Line 120.
PrintSaving ==
    /\ pc = "saved"
    /\ out' = Append(out, <<"Saving Product Label Change: ", Str(drug_id),
                            " URL: ", DictGet(drug_links, drug_id)>>)
    /\ pc' = AfterSaving
    /\ UNCHANGED <<index, drug_links, drug_appid_links, counter, all_files,
                   it, r, f, gets, opens, served, outstanding, nsleep,
                   nclosed, failedAt, envVars, fs>>

\* Line 122: time.sleep(WAIT_TIME).
Sleep ==
    /\ pc = "sleep"
    /\ nsleep' = nsleep + 1
    /\ pc' = "count"
    /\ UNCHANGED <<index, drug_links, drug_appid_links, counter, out,
                   all_files, it, r, f, gets, opens, served, outstanding,
                   nclosed, failedAt, envVars, fs>>

\* Lines 123-125, and the loop moves to the next key.
Count ==
    /\ pc = "count"
    /\ counter' = counter + 1
    /\ out' = IF (counter + 1) % MilestoneEvery = 0
              THEN Append(out, <<">> ", Str(counter + 1)>>)
              ELSE out
    /\ it' = it + 1
    /\ pc' = "loop"
    /\ UNCHANGED <<index, drug_links, drug_appid_links, all_files, r, f, gets,
                   opens, served, outstanding, nsleep, nclosed, failedAt,
                   envVars, fs>>

-----------------------------------------------------------------------------
(* The file-count check, lines 127-136.                                    *)

CompareNames(listing, links) ==
    listing = {FileName(DictKeys(links)[i]) : i \in 1..Len(links)}

\* Lines 130-132: expected == found, two lengths.
CompareCounts(listing, links) == Len(links) = Cardinality(listing)

\* Lines 129-136.  os.listdir returns the names in the directory, in no
\* particular order; only their number is used.
Check ==
    /\ pc = "check"
    /\ all_files' = DOMAIN fs
    /\ LET expected == Len(drug_links)
           found == Cardinality(DOMAIN fs)
       IN  out' = IF CompareCounts(DOMAIN fs, drug_links)
                  THEN out \o << <<"Total files: ", Str(found)>>,
                                 <<"Skippping, data already downloaded!">> >>
                  ELSE Append(out, <<"There are some files missing, expected: ",
                                     Str(expected), " Found: ", Str(found)>>)
    /\ pc' = "final"
    /\ UNCHANGED <<index, drug_links, drug_appid_links, counter, it, r, f,
                   gets, opens, served, outstanding, nsleep, nclosed, failedAt,
                   envVars, fs>>

-----------------------------------------------------------------------------
(* The end of the script, and what surrounds a run.                        *)

FinalSilent ==
    /\ pc = "final"
    /\ pc' = "done"
    /\ prevNames' = IF DOWNLOAD_DATA THEN DOMAIN fs ELSE prevNames
    /\ UNCHANGED <<index, drug_links, drug_appid_links, counter, all_files,
                   it, r, f, gets, opens, served, outstanding, nsleep, nclosed,
                   failedAt, DOWNLOAD_DATA, labels, link, extracted, fs, out>>

\* Line 138.
Final ==
    /\ pc = "final"
    /\ out' = Append(out, FinalLine)
    /\ pc' = "done"
    /\ prevNames' = IF DOWNLOAD_DATA THEN DOMAIN fs ELSE prevNames
    /\ UNCHANGED <<index, drug_links, drug_appid_links, counter, all_files,
                   it, r, f, gets, opens, served, outstanding, nsleep, nclosed,
                   failedAt, DOWNLOAD_DATA, labels, link, extracted, fs>>

\* The process is interrupted (a signal, a kill, a power loss).  Of a file
\* that is open, the bytes still in the writer's buffer may be lost: what
\* stays on disk is a prefix of what was written.
Interrupt ==
    /\ pc \notin Terminal
    /\ pc \notin {"extract", "extracted"}
    /\ pc' = "interrupted"
    /\ IF f # NoFile
       THEN \E kept \in Prefixes(fs[f]) : fs' = [fs EXCEPT ![f] = kept]
       ELSE fs' = fs
    /\ UNCHANGED <<procVars, envVars>>

\* The operator runs the script again, in either mode, against the same
\* catalog and the same output directory.
Restart ==
    /\ pc \in Terminal
    /\ pc' = "read_csv"
    /\ index' = 0
    /\ drug_links' = <<>>
    /\ drug_appid_links' = <<>>
    /\ counter' = 0
    /\ out' = <<>>
    /\ all_files' = {}
    /\ it' = 0
    /\ r' = NoResponse
    /\ f' = NoFile
    /\ gets' = <<>>
    /\ opens' = <<>>
    /\ served' = <<>>
    /\ outstanding' = 0
    /\ nsleep' = 0
    /\ nclosed' = 0
    /\ failedAt' = 0
    /\ DOWNLOAD_DATA' \in BOOLEAN
    /\ UNCHANGED <<labels, prevNames, link, extracted, fs>>

Step ==
    \/ ReadCsv
    \/ ReadCsvError
    \/ LoadRow
    \/ PrintSummary
    \/ ListDir
    \/ ListDirError
    \/ NextKey
    \/ Get
    \/ GetError
    \/ Open
    \/ OpenError
    \/ Chunk
    \/ ChunkError
    \/ WriteError
    \/ EndStream
    \/ PrintSaving
    \/ Sleep
    \/ Count
    \/ Check
    \/ Final

Next ==
    \/ Step
    \/ Interrupt
    \/ Restart

Spec == Init /\ [][Next]_vars

-----------------------------------------------------------------------------
(* The extraction rule of line 91 on its own, over every Link of at most   *)
(* MaxLinkLen characters of LinkChars.                                     *)

InitExtract ==
    /\ pc = "extract"
    /\ link \in BoundedLinks
    /\ extracted = NotExtracted
    /\ index = 0
    /\ drug_links = <<>>
    /\ drug_appid_links = <<>>
    /\ counter = 0
    /\ out = <<>>
    /\ all_files = {}
    /\ it = 0
    /\ r = NoResponse
    /\ f = NoFile
    /\ gets = <<>>
    /\ opens = <<>>
    /\ served = <<>>
    /\ outstanding = 0
    /\ nsleep = 0
    /\ nclosed = 0
    /\ failedAt = 0
    /\ DOWNLOAD_DATA = TRUE
    /\ labels = <<>>
    /\ fs = EmptyDir
    /\ prevNames = NoNames

\* Line 91 applied to link.
Extract ==
    /\ pc = "extract"
    /\ extracted' = ExtractDrugId(link)
    /\ pc' = "extracted"
    /\ UNCHANGED <<procVars, DOWNLOAD_DATA, labels, prevNames, link, fs>>

NextExtract == Extract

SpecExtract == InitExtract /\ [][NextExtract]_vars

\* The interpreter runs the script on: while the process has a next step (a
\* statement to execute, or an exception to raise) it takes one, unless it
\* is interrupted first.
Fairness == WF_vars(Step)

FairSpec == Spec /\ Fairness

-----------------------------------------------------------------------------
(* Definitions the properties share.                                       *)

Range(q) == {q[i] : i \in 1..Len(q)}

Last(q) == q[Len(q)]

KeyAt(i) == DictKeys(drug_links)[i]

KeyNames == {FileName(KeyAt(i)) : i \in 1..Len(drug_links)}

\* The sum of the lengths of the non-empty chunks.
RECURSIVE SumNonEmpty(_)
SumNonEmpty(chunks) ==
    IF chunks = <<>> THEN 0
    ELSE (IF Len(Head(chunks)) > 0 THEN Len(Head(chunks)) ELSE 0)
         + SumNonEmpty(Tail(chunks))

\* The bytes of the response served for key i of this run.
BodyOf(i) == Concat(DictGet(served, KeyAt(i)).chunks)

-----------------------------------------------------------------------------
(* C1.  Every GET the downloader sends carries the User-Agent header the   *)
(* script defines on line 50.                                              *)
C1_EveryGetCarriesUserAgent ==
    \A i \in 1..Len(gets) :
        gets[i].headers["User-Agent"] = userAgent["User-Agent"]

-----------------------------------------------------------------------------
(* C2, as stated.  Whatever happens in a run, an error included, the run   *)
(* ends with the final status line as its last output.                     *)
C2_EveryRunEndsWithFinalLine ==
    pc \in {"done", "aborted"} => (out # <<>> /\ Last(out) = FinalLine)

(* C2, amended.  Every run ends: a process that has not ended always has a *)
(* next step, and a started run leads to an ended one.  A run that ends    *)
(* normally has the final status line as its last output; a run in which   *)
(* the catalog read, a row's extraction, a directory listing, a GET, an    *)
(* open or a write raises ends there without the final status line.        *)
C2_RunEndsAndFinalLineIffNoError ==
    /\ [](pc = "done" => (out # <<>> /\ Last(out) = FinalLine))
    /\ [](pc = "aborted" => FinalLine \notin Range(out))
    /\ [](pc \notin Terminal => ENABLED Step)
    /\ (pc = "read_csv") ~> (pc \in Terminal)

\* A run of the downloader that fetched two files and printed the final line.
C2_Witness ==
    /\ pc = "done"
    /\ DOWNLOAD_DATA
    /\ nclosed = 2
    /\ Last(out) = FinalLine

-----------------------------------------------------------------------------
(* C4.  After the loader has taken any number of rows, the two dicts have  *)
(* the same keys, in the same order and without repetition: the drug_ids   *)
(* extracted from those rows; each key is mapped to the Link and the       *)
(* Application Number of the last row that yielded it.                     *)
C4_MappingsHoldLastRow ==
    \A rows \in {{<<i, ExtractDrugId(labels[i].link).val>> : i \in 1..index}} :
        LET Ids == {row[2] : row \in rows}
            LastRow(k) == CHOOSE i \in 1..index :
                              /\ <<i, k>> \in rows
                              /\ \A j \in (i + 1)..index : <<j, k>> \notin rows
        IN  /\ DictKeySet(drug_links) = Ids
            /\ DictKeySet(drug_appid_links) = Ids
            /\ DictKeys(drug_links) = DictKeys(drug_appid_links)
            /\ Len(drug_links) = Cardinality(Ids)
            /\ \A k \in Ids :
                  /\ DictGet(drug_links, k) = labels[LastRow(k)].link
                  /\ DictGet(drug_appid_links, k) = labels[LastRow(k)].app

\* Three rows loaded, the first two with the same drug_id and different
\* Links: the dicts hold two keys, and the second row's values for 42.
C4_Witness ==
    /\ index = 3
    /\ Len(labels) = 3
    /\ labels[1].app = "A1"
    /\ labels[2].app = "A2"
    /\ labels[3].app = "A3"
    /\ Len(drug_links) = 2
    /\ DictGet(drug_appid_links, 42) = "A2"
    /\ DictGet(drug_links, 42) = labels[2].link

-----------------------------------------------------------------------------
(* C5.  When the download loop has ended without an exception, each key's  *)
(* file {drug_id}.html was opened for writing exactly once, is in the      *)
(* directory, and is as long as the non-empty chunks of its response taken *)
(* together, whatever the status; distinct keys have distinct files and no *)
(* other name was opened.                                                  *)
C5_OneFilePerKeyOfStreamedLength ==
    (pc \in {"final", "done"} /\ DOWNLOAD_DATA) =>
        /\ \A i \in 1..Len(drug_links) :
              /\ FileName(KeyAt(i)) \in DOMAIN fs
              /\ Cardinality({j \in 1..Len(opens) :
                                 opens[j] = FileName(KeyAt(i))}) = 1
              /\ Len(fs[FileName(KeyAt(i))])
                    = SumNonEmpty(DictGet(served, KeyAt(i)).chunks)
        /\ Cardinality(KeyNames) = Len(drug_links)
        /\ Range(opens) = KeyNames

\* A complete download of two keys, one answered 404 with an empty chunk
\* before its body, the other in several chunks.
C5_Witness ==
    /\ pc = "done"
    /\ DOWNLOAD_DATA
    /\ Len(drug_links) = 2
    /\ DictGet(served, KeyAt(1)).status = 404
    /\ <<>> \in Range(DictGet(served, KeyAt(1)).chunks)
    /\ Len(DictGet(served, KeyAt(2)).chunks) = 3
    /\ Len(fs[FileName(KeyAt(2))]) = 3

-----------------------------------------------------------------------------
(* C6.  In verify-only mode a match is reported exactly when the number of *)
(* entries of the directory equals the number of keys, whatever the names; *)
(* otherwise the mismatch line carries both counts.                        *)
C6_MatchIffCountsEqual ==
    (pc \in {"final", "done"} /\ ~DOWNLOAD_DATA) =>
        LET expected == Cardinality(DictKeySet(drug_links))
            found == Cardinality(DOMAIN fs)
            matchLine == <<"Skippping, data already downloaded!">>
            missLine == <<"There are some files missing, expected: ",
                          Str(expected), " Found: ", Str(found)>>
        IN  /\ matchLine \in Range(out) <=> expected = found
            /\ missLine \in Range(out) <=> expected # found
            /\ matchLine \in Range(out) =>
                   <<"Total files: ", Str(found)>> \in Range(out)

\* A match is reported for a directory whose one entry is not 7.html.
C6_Witness ==
    /\ pc = "done"
    /\ ~DOWNLOAD_DATA
    /\ Len(drug_links) = 1
    /\ DOMAIN fs # KeyNames
    /\ <<"Skippping, data already downloaded!">> \in Range(out)

-----------------------------------------------------------------------------
(* C7.  When a download run has ended its loop and an earlier download run *)
(* of the same catalog against the same directory had completed, every     *)
(* key's file holds exactly the bytes streamed in this run and the         *)
(* directory lists the same names as after the earlier run.                *)
C7_RerunRewritesEveryFile ==
    (pc \in {"final", "done"} /\ DOWNLOAD_DATA /\ prevNames # NoNames) =>
        /\ DOMAIN fs = prevNames
        /\ \A i \in 1..Len(drug_links) : fs[FileName(KeyAt(i))] = BodyOf(i)

\* A second complete run over two keys whose first file is now empty.
C7_Witness ==
    /\ pc = "final"
    /\ DOWNLOAD_DATA
    /\ prevNames # NoNames
    /\ Len(drug_links) = 2
    /\ fs[FileName(KeyAt(1))] = <<>>
    /\ Len(fs[FileName(KeyAt(2))]) = 3

-----------------------------------------------------------------------------
(* C8.  A transport error is not caught and not retried: the step that     *)
(* meets it ends the run and changes no file of an earlier key; in a run   *)
(* it has ended each drug_id was requested at most once, the requests are  *)
(* those of the keys up to the failing one, in order, and the files of the *)
(* keys before it hold their full bodies; the ended process does nothing.  *)
C8_TransportErrorAbortsWithoutRetry ==
    [][ /\ failedAt' # failedAt /\ failedAt' # 0 =>
              /\ pc' = "aborted"
              /\ failedAt' = it + 1
              /\ \A i \in 1..it :
                    /\ FileName(KeyAt(i)) \in DOMAIN fs'
                    /\ fs'[FileName(KeyAt(i))] = fs[FileName(KeyAt(i))]
        /\ failedAt' # 0 =>
              /\ pc' = "aborted"
              /\ Len(gets') = failedAt'
              /\ \A i \in 1..Len(gets') : gets'[i].drug_id = KeyAt(i)'
              /\ \A i, j \in 1..Len(gets') :
                    gets'[i].drug_id = gets'[j].drug_id => i = j
              /\ \A i \in 1..(failedAt' - 1) :
                    fs'[FileName(KeyAt(i)')] = BodyOf(i)'
        /\ (pc = "aborted" /\ pc' = "aborted") => UNCHANGED vars
      ]_vars

\* The GET of the second key failed after the first key's file was written.
C8_Witness ==
    /\ pc = "aborted"
    /\ failedAt = 2
    /\ Len(gets) = 2
    /\ Len(drug_links) = 2
    /\ Len(fs[FileName(KeyAt(1))]) = 3

-----------------------------------------------------------------------------
(* C9, as stated.  After an interruption every key's file is either        *)
(* written with the full body of this run or was not opened by this run.   *)
C9_InterruptLeavesNoPartialFile ==
    pc = "interrupted" =>
        \A i \in 1..Len(drug_links) :
            FileName(KeyAt(i)) \in Range(opens) =>
                fs[FileName(KeyAt(i))] = BodyOf(i)

(* C9, amended.  At any point of a run, an interruption included, the      *)
(* files opened so far are those of the first keys in order; each of them  *)
(* whose download has completed holds the full body of this run; at most   *)
(* one, the one being downloaded, holds a possibly empty proper or full    *)
(* prefix of its body; and no step changes a file this run has not opened. *)
C9_OnlyTheFileInProgressIsPartial ==
    [][ /\ Len(opens') <= nclosed' + 1
        /\ \A i \in 1..Len(opens') :
              /\ opens'[i] = FileName(KeyAt(i)')
              /\ opens'[i] \in DOMAIN fs'
              /\ i <= nclosed' => fs'[opens'[i]] = BodyOf(i)'
              /\ i > nclosed' => fs'[opens'[i]] \in Prefixes(BodyOf(i)')
        /\ \A n \in (DOMAIN fs \cup DOMAIN fs') \ Range(opens') :
              /\ n \in DOMAIN fs
              /\ n \in DOMAIN fs'
              /\ fs'[n] = fs[n]
      ]_vars

\* Interrupted while the second key's body was streamed: the first file is
\* whole, the second holds one byte of its three.
C9_Witness ==
    /\ pc = "interrupted"
    /\ Len(opens) = 2
    /\ nclosed = 1
    /\ Len(fs[opens[1]]) = 3
    /\ Len(fs[opens[2]]) = 1
    /\ Len(BodyOf(2)) = 3

-----------------------------------------------------------------------------
(* C10.  Requests are sequential and paced: at most one GET is outstanding;*)
(* when a GET is about to be sent or in flight, every earlier response has *)
(* been written to its closed file and followed by one sleep; and between  *)
(* iterations the sleeps taken equal the files written.                    *)
C10_SequentialAndPaced ==
    /\ outstanding \in {0, 1}
    /\ nclosed - nsleep \in {0, 1}
    /\ pc \in {"get", "open", "stream"} => (nsleep = nclosed /\ nclosed = it)
    /\ pc = "get" => (outstanding = 0 /\ Len(gets) = nclosed)
    /\ pc \in {"open", "stream"} => (outstanding = 1 /\ Len(gets) = nclosed + 1)
    /\ pc \in {"loop", "final", "done"} =>
          (nsleep = nclosed /\ Len(gets) = nclosed /\ outstanding = 0)

\* The second GET is in flight after one file was written and one sleep taken.
C10_Witness ==
    /\ pc = "open"
    /\ Len(gets) = 2
    /\ nclosed = 1
    /\ nsleep = 1
    /\ outstanding = 1

-----------------------------------------------------------------------------
(* C3.  The extraction rule, stated by positions in the Link.              *)

\* The first position of c in l[lo..hi], or 0.
FirstAt(l, c, lo, hi) ==
    IF \E p \in lo..hi : l[p] = c
    THEN CHOOSE p \in lo..hi : l[p] = c /\ \A q \in lo..(p - 1) : l[q] # c
    ELSE 0

\* The Link has a second "&"-delimited segment.
HasSecondSegment(l) == FirstAt(l, "&", 1, Len(l)) # 0

SegLo(l) == FirstAt(l, "&", 1, Len(l)) + 1

SegHi(l) ==
    LET n == FirstAt(l, "&", SegLo(l), Len(l))
    IN  IF n = 0 THEN Len(l) ELSE n - 1

\* The second segment holds an "=".
HasValue(l) == HasSecondSegment(l) /\ FirstAt(l, "=", SegLo(l), SegHi(l)) # 0

\* What follows the first "=" of the second segment, up to the segment's
\* next "=" or its end.
ValueOf(l) ==
    LET lo == FirstAt(l, "=", SegLo(l), SegHi(l)) + 1
        n == FirstAt(l, "=", lo, SegHi(l))
    IN  SubSeq(l, lo, IF n = 0 THEN SegHi(l) ELSE n - 1)

IsDigitString(v) == v # <<>> /\ \A i \in 1..Len(v) : v[i] \in Digits

\* The number a digit string writes in base 10.
RECURSIVE Decimal(_)
Decimal(v) ==
    IF v = <<>> THEN 0
    ELSE 10 * Decimal(SubSeq(v, 1, Len(v) - 1)) + DigitVal(v[Len(v)])

\* Numeric: digits, with or without one sign before them.
IsNumeric(v) ==
    /\ v # <<>>
    /\ IsDigitString(IF v[1] \in {"+", "-"} THEN Tail(v) ELSE v)

\* What int() accepts: blanks around, one sign, digits with single
\* underscores between them.
IntAccepts(v) ==
    \E lo, hi \in 1..Len(v) :
        /\ lo <= hi
        /\ \A p \in 1..Len(v) : (p < lo \/ p > hi) => v[p] \in Whitespace
        /\ LET d == IF v[lo] \in {"+", "-"} THEN lo + 1 ELSE lo
           IN  /\ d <= hi
               /\ v[d] \in Digits
               /\ v[hi] \in Digits
               /\ \A p \in d..hi : v[p] \in Digits \cup {"_"}
               /\ \A p \in d..(hi - 1) : v[p] = "_" => v[p + 1] # "_"

IntValueOf(v) ==
    LET digits == SelectSeq(v, LAMBDA c : c \in Digits)
        minus == \E p \in 1..Len(v) : v[p] = "-"
    IN  IF minus THEN 0 - Decimal(digits) ELSE Decimal(digits)

(* C3, as stated.  A Link ...&id=<N>... yields exactly N; a Link with      *)
(* fewer than two "&"-segments, or whose value after the first "=" of the  *)
(* second segment is not numeric, fails.                                   *)
C3_ExtractionYieldsNOrFails ==
    pc = "extracted" =>
        /\ (HasValue(link) /\ IsDigitString(ValueOf(link))) =>
               extracted = [ok |-> TRUE, val |-> Decimal(ValueOf(link))]
        /\ ~HasSecondSegment(link) => ~extracted.ok
        /\ (HasValue(link) /\ ~IsNumeric(ValueOf(link))) => ~extracted.ok

(* C3, amended.  A Link ...&id=<N>... yields exactly N; extraction fails   *)
(* exactly when the Link has fewer than two "&"-segments, its second       *)
(* segment has no "=", or the text between that segment's first "=" and    *)
(* its next "=" or end is not accepted by int(), which also accepts blanks *)
(* around the number, a sign, and single underscores between digits.       *)
C3_ExtractionFailsIffIntRejects ==
    pc = "extracted" =>
        /\ (HasValue(link) /\ IsDigitString(ValueOf(link))) =>
               extracted = [ok |-> TRUE, val |-> Decimal(ValueOf(link))]
        /\ extracted.ok <=> (HasValue(link) /\ IntAccepts(ValueOf(link)))
        /\ extracted.ok => extracted.val = IntValueOf(ValueOf(link))

\* A Link whose id is followed by a further parameter yields the id, and a
\* value that is no number, "7_7", is accepted.
C3_Witness ==
    /\ pc = "extracted"
    /\ link = <<"&", "=", "7", "_", "7">>
    /\ extracted = [ok |-> TRUE, val |-> 77]

=============================================================================
